---- MODULE Spec2Model ----
(***************************************************************************)
(* Model of srt_to_audio (src/main.py): the per-segment composition loop   *)
(* that places synthesized clips on a master timeline, and the save step.  *)
(*                                                                         *)
(* Time is kept in integer milliseconds (SRT resolution), samples as       *)
(* integers; a frame is a tuple with one value per channel, so a mono      *)
(* frame is <<v>> and a stereo frame <<l, r>>.  Sample values are in units *)
(* of 1/FullScale.  For the times and sample rates used below the float    *)
(* products int(t * sr) of the source equal the exact floor computed here. *)
(***************************************************************************)
EXTENDS Integers, Sequences, FiniteSets

\* ------------------------------------------------------------------ bounds

\* Longest subtitle track.
MaxSegs == 3

\* Sample rates a decoded clip may carry.
SampleRates == {20, 40}

\* Channel counts a decoded clip may carry.
ChannelCounts == {1, 2}

\* Lengths (in frames) a decoded clip may have.
ClipLens == {0, 3, 30}

\* Start times of subtitle cues, in milliseconds.
StartTimesMs == {40, 500}

\* Cue texts: plain text, and text that is only inline markup tags around a
\* space.
Texts == { <<"a">>, <<"<", "i", ">", " ", "<", "/", "i", ">">> }

\* The cues parse_srt may return; a cue's end lies half a second after its start.
Segments == { [start |-> s, end |-> s + 500, text |-> t] : s \in StartTimesMs, t \in Texts }

\* ------------------------------------------------------------- arithmetic

Max(a, b) == IF a >= b THEN a ELSE b

RECURSIVE SeqMax(_)
SeqMax(s) == IF Len(s) = 1 THEN s[1] ELSE Max(s[1], SeqMax(Tail(s)))

\* Python's round() of num/den (num >= 0, den > 0): to nearest, ties to even.
RoundHalfEven(num, den) ==
    LET q == num \div den
        r == num % den
    IN IF 2 * r < den THEN q
       ELSE IF 2 * r > den THEN q + 1
       ELSE IF q % 2 = 0 THEN q ELSE q + 1

\* 1.0 in sample units (the threshold of the normalizer).
FullScale == 2

\* int(seconds * rate) for a non-negative time given in milliseconds.
SecondsToSamples(ms, rate) == (ms * rate) \div 1000

\* ------------------------------------------------------------- text

IsSpace(c) == c = " "

RECURSIVE FirstClose(_, _)
\* Index of the first ">" of s at or after p, or 0.
FirstClose(s, p) ==
    IF p > Len(s) THEN 0
    ELSE IF s[p] = ">" THEN p
    ELSE FirstClose(s, p + 1)

RECURSIVE RemoveTags(_)
\* re.sub(r'<[^>]+>', '', text)
RemoveTags(s) ==
    IF s = <<>> THEN <<>>
    ELSE IF s[1] = "<" /\ FirstClose(s, 2) > 2
         THEN RemoveTags(SubSeq(s, FirstClose(s, 2) + 1, Len(s)))
         ELSE <<s[1]>> \o RemoveTags(Tail(s))

RECURSIVE Strip(_)
\* str.strip()
Strip(s) ==
    IF s = <<>> THEN <<>>
    ELSE IF IsSpace(s[1]) THEN Strip(Tail(s))
    ELSE IF IsSpace(s[Len(s)]) THEN Strip(SubSeq(s, 1, Len(s) - 1))
    ELSE s

\* A cleaning that strips whitespace and leaves the markup in.
CleanText_NoTagRemoval(text) == Strip(text)

\* Line 179
CleanText(text) == Strip(RemoveTags(text))

\* ------------------------------------------------------------- clips

\* What sf.read may return for one synthesis response.
Clips == [sr : SampleRates, ch : ChannelCounts, len : ClipLens]

\* The sample value of a clip: long clips are loud (above full scale).
ClipAmp(c) == IF c.len > 3 THEN FullScale + 1 ELSE 1

ClipFrame(c) == IF c.ch = 1 THEN <<ClipAmp(c)>> ELSE <<ClipAmp(c), ClipAmp(c) + 1>>

\* The decoded array `data` of a clip.
ClipData(c) == [k \in 1..c.len |-> ClipFrame(c)]

Zeros(n, ch) == [k \in 1..n |-> [c \in 1..ch |-> 0]]

ScaleFrame(f, num, den) == [c \in DOMAIN f |-> (f[c] * num) \div den]

\* np.linspace(0, 1, n)[k - 1] as a fraction num/den.
RampNum(k, n) == IF n = 1 THEN 0 ELSE k - 1

RampDen(n) == IF n = 1 THEN 1 ELSE n - 1

\* int(fade_duration * sr) with fade_duration = 0.05
FadeSamples(rate) == (5 * rate) \div 100

\* Fade whose guard lets a clip of exactly twice the fade window through.
Fade_FadesAtEqual(d, rate) ==
    LET n == FadeSamples(rate)
        L == Len(d)
        fadeIn == [k \in 1..L |->
                     IF k <= n THEN ScaleFrame(d[k], RampNum(k, n), RampDen(n)) ELSE d[k]]
    IN IF n > 0 /\ n * 2 <= L
       THEN [k \in 1..L |->
               IF k > L - n
               THEN ScaleFrame(fadeIn[k], RampNum(L - k + 1, n), RampDen(n))
               ELSE fadeIn[k]]
       ELSE d

\* Fade in/out of `data`: the first and the last fade_samples frames are
\* multiplied by the ramp and by the reversed ramp.
Fade(d, rate) ==
    LET n == FadeSamples(rate)
        L == Len(d)
        fadeIn == [k \in 1..L |->
                     IF k <= n THEN ScaleFrame(d[k], RampNum(k, n), RampDen(n)) ELSE d[k]]
    IN IF n > 0 /\ n * 2 < L
       THEN [k \in 1..L |->
               IF k > L - n
               THEN ScaleFrame(fadeIn[k], RampNum(L - k + 1, n), RampDen(n))
               ELSE fadeIn[k]]
       ELSE d

\* ------------------------------------------------------------- state

VARIABLES
    pc,                     \* position in srt_to_audio
    ref_exists,             \* os.path.exists(ref_audio_abs)
    checkCalls,             \* requests issued: /v1/check/audio
    uploadCalls,            \* requests issued: /v1/upload_audio
    synthCalls,             \* requests issued: /v2/synthesize
    segments,               \* result of parse_srt
    total_duration,         \* last_end_time + 1.0, in milliseconds
    i,                      \* index of the segment the loop is at (1-based)
    allocated,              \* final_audio is not None
    final_audio,            \* the timeline buffer (frames)
    channels,               \* final_audio.shape: channel count of the buffer
    sample_rate,
    success_count,
    next_available_sample,
    sr,                     \* sample rate of the clip decoded last
    n_skipped,              \* segments skipped for empty text
    n_failed,               \* segments whose synthesis or decode failed
    n_rejected,             \* segments rejected for their sample rate
    placed,                 \* history: one record per clip mixed into the buffer
    written,                \* sf.write was called
    output,                 \* what was handed to sf.write
    call_result,            \* result of the set-up request just made, until it is acted on
    output_before,          \* os.path.exists(output_path) before the run
    tool_result,            \* what convert_srt_to_audio has come to
    bench_pc,               \* position of a run of one function on its own
    bench_in,               \* its input array
    bench_rate,             \* its sample rate
    bench_out               \* its result

vars == <<pc, ref_exists, checkCalls, uploadCalls, synthCalls, segments,
          total_duration, i, allocated, final_audio, channels, sample_rate,
          success_count, next_available_sample, sr, n_skipped, n_failed,
          n_rejected, placed, written, output, call_result, output_before,
          tool_result, bench_pc, bench_in, bench_rate, bench_out>>

\* The file system and the tool call around the run.
host == <<output_before, tool_result>>

\* The variables of a run of one function on its own.
bench == <<bench_pc, bench_in, bench_rate, bench_out>>

reqs == <<checkCalls, uploadCalls, synthCalls>>

loopState == <<allocated, final_audio, channels, sample_rate, success_count,
               next_available_sample, sr, n_skipped, n_failed, n_rejected,
               placed>>

NoOutput == [samples |-> <<>>, divisor |-> FullScale, rate |-> 0]

\* The state of srt_to_audio at its entry.
RunInit ==
    /\ pc = "start"
    /\ ref_exists \in BOOLEAN
    /\ checkCalls = 0
    /\ uploadCalls = 0
    /\ synthCalls = 0
    /\ segments = <<>>
    /\ total_duration = 0
    /\ i = 1
    /\ allocated = FALSE
    /\ final_audio = <<>>
    /\ channels = 0
    /\ sample_rate = 0
    /\ success_count = 0
    /\ next_available_sample = 0
    /\ sr = 0
    /\ n_skipped = 0
    /\ n_failed = 0
    /\ n_rejected = 0
    /\ placed = <<>>
    /\ written = FALSE
    /\ output = NoOutput
    /\ call_result = "none"

\* No function is run on its own.
BenchOff ==
    /\ bench_pc = "off"
    /\ bench_in = <<>>
    /\ bench_rate = 0
    /\ bench_out = <<>>

\* The command line run (lines 279-288), with no file at the output path yet.
Init ==
    /\ RunInit
    /\ output_before = FALSE
    /\ tool_result = "none"
    /\ BenchOff

\* ------------------------------------------------------------- set-up

\* CheckReferenceLocal without the sys.exit(1): a missing file is only reported.
CheckReferenceLocal_NoExit ==
    /\ pc = "start"
    /\ pc' = "check"
    /\ UNCHANGED <<ref_exists, reqs, segments, total_duration, i, loopState,
                   written, output, call_result, host, bench>>

\* Lines 134-139: the reference audio must exist locally, else sys.exit(1).
CheckReferenceLocal ==
    /\ pc = "start"
    /\ pc' = IF ref_exists THEN "check" ELSE "exit"
    /\ UNCHANGED <<ref_exists, reqs, segments, total_duration, i, loopState,
                   written, output, call_result, host, bench>>

\* Lines 38-46, called at line 145: engine.check_audio_exists answers that the
\* reference is on the server, that it is not, or fails (any exception inside
\* it is caught and reads as False).
CheckAudioExists ==
    /\ pc = "check"
    /\ checkCalls' = checkCalls + 1
    /\ call_result' \in {"exists", "missing", "check_error"}
    /\ pc' = "checked"
    /\ UNCHANGED <<ref_exists, uploadCalls, synthCalls, segments, total_duration,
                   i, loopState, written, output, host, bench>>

\* Line 145: upload unless the check said the reference exists.
UploadWanted(result) == result # "exists"

\* Lines 145-149: the branch on the answer of the check.
DecideUpload ==
    /\ pc = "checked"
    /\ pc' = IF UploadWanted(call_result) THEN "upload" ELSE "parse"
    /\ call_result' = "none"
    /\ UNCHANGED <<ref_exists, reqs, segments, total_duration, i, loopState,
                   written, output, host, bench>>

\* Lines 48-63, called at line 147: engine.upload_audio posts the file and
\* succeeds, or the request or its status raises; when the path is no regular
\* file it raises before any request.
UploadAudio ==
    /\ pc = "upload"
    /\ \E res \in {"uploaded", "upload_error", "not_a_file"} :
         /\ call_result' = res
         /\ uploadCalls' = IF res = "not_a_file" THEN uploadCalls ELSE uploadCalls + 1
    /\ pc' = "uploaded"
    /\ UNCHANGED <<ref_exists, checkCalls, synthCalls, segments, total_duration,
                   i, loopState, written, output, host, bench>>

\* AfterUpload that lets a failed upload end the run.
AfterUpload_FatalOnError(result) == IF result = "uploaded" THEN "parse" ELSE "exit"

\* Where the run goes after the upload: an exception is no reason to stop.
AfterUpload(result) == "parse"

\* Lines 147-152: the upload returned, or its exception is caught and warned
\* about; either way the run goes on to parsing.
UploadReturns ==
    /\ pc = "uploaded"
    /\ pc' = AfterUpload(call_result)
    /\ call_result' = "none"
    /\ UNCHANGED <<ref_exists, reqs, segments, total_duration, i, loopState,
                   written, output, host, bench>>

SegmentLists == UNION { [1..n -> Segments] : n \in 0..MaxSegs }

EndTimes(segs) == [k \in 1..Len(segs) |-> segs[k].end]

\* Lines 156-171: parse_srt, sys.exit(1) on no segments, else the loop's set-up.
ParseSrt ==
    /\ pc = "parse"
    /\ \E segs \in SegmentLists :
         /\ segments' = segs
         /\ IF segs = <<>>
            THEN pc' = "exit" /\ total_duration' = total_duration
            ELSE pc' = "loop" /\ total_duration' = SeqMax(EndTimes(segs)) + 1000
    /\ UNCHANGED <<ref_exists, reqs, i, loopState, written, output, call_result, host, bench>>

\* ------------------------------------------------------------- the loop

InLoop == pc = "loop" /\ i <= Len(segments)

\* Lines 179-181: nothing is left of the text, continue.
SkipEmptySegment ==
    /\ InLoop
    /\ CleanText(segments[i].text) = <<>>
    /\ i' = i + 1
    /\ n_skipped' = n_skipped + 1
    /\ UNCHANGED <<pc, ref_exists, reqs, segments, total_duration, allocated,
                   final_audio, channels, sample_rate, success_count,
                   next_available_sample, sr, n_failed, n_rejected, placed,
                   written, output, call_result, host, bench>>

\* Lines 186-190: synthesize returns None (status not 200, transport error,
\* timeout) or empty bytes: continue.
SynthesizeFails ==
    /\ InLoop
    /\ CleanText(segments[i].text) # <<>>
    /\ synthCalls' = synthCalls + 1
    /\ i' = i + 1
    /\ n_failed' = n_failed + 1
    /\ UNCHANGED <<pc, ref_exists, checkCalls, uploadCalls, segments,
                   total_duration, allocated, final_audio, channels, sample_rate,
                   success_count, next_available_sample, sr, n_skipped,
                   n_rejected, placed, written, output, call_result, host, bench>>

\* Lines 186-198: synthesize returns bytes and sf.read raises on them: continue.
DecodeFails ==
    /\ InLoop
    /\ CleanText(segments[i].text) # <<>>
    /\ synthCalls' = synthCalls + 1
    /\ i' = i + 1
    /\ n_failed' = n_failed + 1
    /\ UNCHANGED <<pc, ref_exists, checkCalls, uploadCalls, segments,
                   total_duration, allocated, final_audio, channels, sample_rate,
                   success_count, next_available_sample, sr, n_skipped,
                   n_rejected, placed, written, output, call_result, host, bench>>

\* Lines 214-223: the buffer as it is after the lazy initialisation.
InitBuffer(c) ==
    IF allocated THEN final_audio
    ELSE Zeros(SecondsToSamples(total_duration, c.sr), c.ch)

InitRate(c) == IF allocated THEN sample_rate ELSE c.sr

InitChannels(c) == IF allocated THEN channels ELSE c.ch

\* RateMatches without the comparison: no clip is ever rejected.
RateMatches_Always(clipRate, rate) == TRUE

\* Line 227
RateMatches(clipRate, rate) == clipRate = rate

\* NominalSample with round() in place of int().
NominalSample_Round(startMs, rate) == RoundHalfEven(startMs * rate, 1000)

\* Line 232
NominalSample(startMs, rate) == SecondsToSamples(startMs, rate)

\* ResolveOffset without the shift: the clip always goes to its nominal sample.
ResolveOffset_NoShift(nominal, cursor) == nominal

\* Lines 235-238: auto-shift to avoid overlap.
ResolveOffset(nominal, cursor) == IF nominal < cursor THEN cursor ELSE nominal

\* EndSample that forgets the clip's length.
EndSample_NoLength(start_sample, len) == start_sample

\* Line 240
EndSample(start_sample, len) == start_sample + len

\* A capacity step that extends the buffer to end_sample and no further.
EnsureCapacity_NoHeadroom(buf, ch, end_sample, rate) ==
    IF end_sample > Len(buf)
    THEN buf \o Zeros(end_sample - Len(buf), ch)
    ELSE buf

\* Lines 244-251: extend the buffer when the clip runs past its end.
EnsureCapacity(buf, ch, end_sample, rate) ==
    IF end_sample > Len(buf)
    THEN buf \o Zeros(end_sample + rate * 10 - Len(buf), ch)
    ELSE buf

\* Lines 254-255: a mono clip is duplicated for a stereo buffer.
MatchChannels(d, bufCh) ==
    [k \in 1..Len(d) |-> IF bufCh > 1 /\ Len(d[k]) = 1 THEN <<d[k][1], d[k][1]>> ELSE d[k]]

\* Line 257 raises ValueError when the shapes cannot be broadcast into the
\* buffer slice: a stereo clip into a mono buffer.
Broadcastable(bufCh, clipCh) == clipCh = bufCh \/ (bufCh > 1 /\ clipCh = 1)

AddFrames(f, g) == [c \in DOMAIN f |-> f[c] + g[c]]

\* Line 257: final_audio[start_sample:end_sample] += data
Mix(buf, start_sample, d) ==
    [k \in 1..Len(buf) |->
       IF k > start_sample /\ k <= start_sample + Len(d)
       THEN AddFrames(buf[k], d[k - start_sample])
       ELSE buf[k]]

\* Lines 186-229: a clip is decoded and faded, but its sample rate is not the
\* timeline's: continue.
RejectSampleRate ==
    /\ InLoop
    /\ CleanText(segments[i].text) # <<>>
    /\ \E c \in Clips :
         /\ ~RateMatches(c.sr, InitRate(c))
         /\ sr' = c.sr
    /\ synthCalls' = synthCalls + 1
    /\ i' = i + 1
    /\ n_rejected' = n_rejected + 1
    /\ UNCHANGED <<pc, ref_exists, checkCalls, uploadCalls, segments,
                   total_duration, allocated, final_audio, channels, sample_rate,
                   success_count, next_available_sample, n_skipped, n_failed,
                   placed, written, output, call_result, host, bench>>

\* Lines 186-258: a clip is decoded, faded, placed and mixed into the buffer.
PlaceClip ==
    /\ InLoop
    /\ CleanText(segments[i].text) # <<>>
    /\ \E c \in Clips :
         LET rate == InitRate(c)
             ch == InitChannels(c)
             faded == Fade(ClipData(c), c.sr)
             nominal == NominalSample(segments[i].start, rate)
             start_sample == ResolveOffset(nominal, next_available_sample)
             end_sample == EndSample(start_sample, Len(faded))
             grown == EnsureCapacity(InitBuffer(c), ch, end_sample, rate)
             stacked == MatchChannels(faded, ch)
         IN /\ RateMatches(c.sr, rate)
            /\ Broadcastable(ch, c.ch)
            /\ sr' = c.sr
            /\ allocated' = TRUE
            /\ sample_rate' = rate
            /\ channels' = ch
            /\ next_available_sample' = end_sample
            /\ final_audio' = Mix(grown, start_sample, stacked)
            /\ placed' = Append(placed, [seg |-> i, nominal |-> nominal,
                                         cursor |-> next_available_sample,
                                         start |-> start_sample,
                                         len |-> Len(faded), ch |-> c.ch])
    /\ success_count' = success_count + 1
    /\ synthCalls' = synthCalls + 1
    /\ i' = i + 1
    /\ UNCHANGED <<pc, ref_exists, checkCalls, uploadCalls, segments,
                   total_duration, n_skipped, n_failed, n_rejected, written,
                   output, call_result, host, bench>>

\* Lines 186-257: the clip passes the sample-rate check, the cursor is moved and
\* the buffer extended, and the += of line 257 raises ValueError, which nothing
\* catches: the run ends there.
PlaceClipRaises ==
    /\ InLoop
    /\ CleanText(segments[i].text) # <<>>
    /\ \E c \in Clips :
         LET rate == InitRate(c)
             ch == InitChannels(c)
             faded == Fade(ClipData(c), c.sr)
             nominal == NominalSample(segments[i].start, rate)
             start_sample == ResolveOffset(nominal, next_available_sample)
             end_sample == EndSample(start_sample, Len(faded))
         IN /\ RateMatches(c.sr, rate)
            /\ ~Broadcastable(ch, c.ch)
            /\ sr' = c.sr
            /\ next_available_sample' = end_sample
            /\ final_audio' = EnsureCapacity(InitBuffer(c), ch, end_sample, rate)
    /\ synthCalls' = synthCalls + 1
    /\ pc' = "raised"
    /\ UNCHANGED <<ref_exists, checkCalls, uploadCalls, segments, total_duration,
                   i, allocated, channels, sample_rate, success_count, n_skipped,
                   n_failed, n_rejected, placed, written, output, call_result, host, bench>>

\* ------------------------------------------------------------- save

LoopOver == pc = "loop" /\ i > Len(segments)

\* Trim that leaves the buffer as allocated.
Trim_Never(buf, cursor) == buf

\* Lines 264-266: trim the unused tail of the buffer.
Trim(buf, cursor) ==
    IF cursor > 0 /\ cursor < Len(buf) THEN SubSeq(buf, 1, cursor) ELSE buf

Abs(x) == IF x < 0 THEN 0 - x ELSE x

\* The largest element of a non-empty finite set of integers.
SetMax(S) == CHOOSE m \in S : \A x \in S : m >= x

\* np.max(np.abs(final_audio)); the buffer is never empty where it is taken.
Peak(buf) ==
    SetMax({0} \cup UNION { { Abs(buf[k][c]) : c \in DOMAIN buf[k] } : k \in DOMAIN buf })

\* A save that never normalizes.
NormalizeDivisor_Never(buf) == FullScale

\* Lines 269-272: the divisor of the samples as written: a sample s of the
\* buffer is written as s / divisor (s / FullScale when left as it is,
\* s / peak when normalized).
NormalizeDivisor(buf) == IF Peak(buf) > FullScale THEN Peak(buf) ELSE FullScale

\* Line 261
HasAudio == allocated /\ success_count > 0

\* Lines 261-275: trim, normalize and write the output file.
SaveOutput ==
    /\ LoopOver
    /\ HasAudio
    /\ LET trimmed == Trim(final_audio, next_available_sample)
       IN /\ final_audio' = trimmed
          /\ output' = [samples |-> trimmed, divisor |-> NormalizeDivisor(trimmed),
                        rate |-> sample_rate]
    /\ written' = TRUE
    /\ pc' = "done"
    /\ UNCHANGED <<ref_exists, reqs, segments, total_duration, i, allocated,
                   channels, sample_rate, success_count, next_available_sample,
                   sr, n_skipped, n_failed, n_rejected, placed, call_result, host,
                   bench>>

\* Lines 276-277: "No audio generated.", and the function returns.
NoAudioGenerated ==
    /\ LoopOver
    /\ ~HasAudio
    /\ pc' = "done"
    /\ UNCHANGED <<ref_exists, reqs, segments, total_duration, i, loopState,
                   written, output, call_result, host, bench>>

\* ------------------------------------------------------------- the run

Next ==
    \/ CheckReferenceLocal
    \/ CheckAudioExists
    \/ DecideUpload
    \/ UploadAudio
    \/ UploadReturns
    \/ ParseSrt
    \/ SkipEmptySegment
    \/ SynthesizeFails
    \/ DecodeFails
    \/ RejectSampleRate
    \/ PlaceClip
    \/ PlaceClipRaises
    \/ SaveOutput
    \/ NoAudioGenerated

Spec == Init /\ [][Next]_vars

\* The run is over: returned, left by sys.exit(1), or ended by an exception.
Terminated == pc \in {"done", "exit", "raised"}

\* Lines 279-288: the exit status of the process once the run is over.
ExitStatus == IF pc = "done" THEN 0 ELSE 1

\* ------------------------------------------------------------- the tool

\* mcp_server.py line 39: os.path.exists(output_path) after the run; sf.write
\* creates the file, and nothing in the run removes one that was there.
OutputExists == output_before \/ written

\* What ends the run as the tool's try block sees it: a return, SystemExit
\* (sys.exit(1), main.py lines 139 and 159) or the ValueError of line 257.
RunEnding ==
    IF pc = "done" THEN "return"
    ELSE IF pc = "exit" THEN "SystemExit"
    ELSE IF pc = "raised" THEN "ValueError"
    ELSE "running"

\* mcp_server.py line 43: `except Exception` matches the exceptions derived
\* from Exception; SystemExit derives from BaseException only.
ExceptExceptionCatches(exc) == exc \notin {"SystemExit", "KeyboardInterrupt", "GeneratorExit"}

\* mcp_server.py lines 37-42: srt_to_audio returned; the message depends on
\* the existence of the output file alone.
ToolReturns ==
    /\ tool_result = "none"
    /\ RunEnding = "return"
    /\ tool_result' = IF OutputExists THEN "success" ELSE "error_not_created"
    /\ UNCHANGED <<pc, ref_exists, reqs, segments, total_duration, i, loopState,
                   written, output, call_result, output_before, bench>>

\* mcp_server.py lines 43-44: an exception of the run is caught and reported.
ToolCatches ==
    /\ tool_result = "none"
    /\ RunEnding \notin {"running", "return"}
    /\ ExceptExceptionCatches(RunEnding)
    /\ tool_result' = "error_exception"
    /\ UNCHANGED <<pc, ref_exists, reqs, segments, total_duration, i, loopState,
                   written, output, call_result, output_before, bench>>

\* mcp_server.py lines 30-44: an exception the except clause does not match
\* leaves convert_srt_to_audio; no message is returned.
ToolExits ==
    /\ tool_result = "none"
    /\ RunEnding \notin {"running", "return"}
    /\ ~ExceptExceptionCatches(RunEnding)
    /\ tool_result' = "escaped"
    /\ UNCHANGED <<pc, ref_exists, reqs, segments, total_duration, i, loopState,
                   written, output, call_result, output_before, bench>>

\* convert_srt_to_audio is called with any file, or none, at the output path.
ToolInit ==
    /\ RunInit
    /\ output_before \in BOOLEAN
    /\ tool_result = "none"
    /\ BenchOff

ToolNext ==
    \/ Next
    \/ ToolReturns
    \/ ToolCatches
    \/ ToolExits

ToolSpec == ToolInit /\ [][ToolNext]_vars

\* ------------------------------------------------------------- the fader alone

\* Longest clip given to the fader on its own.
MaxFadeLen == 7

\* Sample rates of those clips: fade windows of 0, 1, 2 and 3 frames.
FadeRates == {10, 20, 40, 60}

\* Their frames; the sample values are even, so that the ramp's 1/2 is exact.
FadeFrames(ch) == IF ch = 1 THEN { <<0 - 2>>, <<4>> } ELSE { <<0 - 2, 4>>, <<4, 0 - 2>> }

FadeInputs ==
    UNION { [1..L -> FadeFrames(ch)] : L \in 0..MaxFadeLen, ch \in ChannelCounts }

\* A decoded clip is about to be faded (before line 200).
FaderInit ==
    /\ RunInit
    /\ output_before = FALSE
    /\ tool_result = "none"
    /\ bench_pc = "fade"
    /\ bench_in \in FadeInputs
    /\ bench_rate \in FadeRates
    /\ bench_out = <<>>

\* Lines 200-211 on their own.
ApplyFade ==
    /\ bench_pc = "fade"
    /\ bench_out' = Fade(bench_in, bench_rate)
    /\ bench_pc' = "faded"
    /\ UNCHANGED <<pc, ref_exists, reqs, segments, total_duration, i, loopState,
                   written, output, call_result, host, bench_in, bench_rate>>

FaderNext == ApplyFade

FaderSpec == FaderInit /\ [][FaderNext]_vars

\* ------------------------------------------------------------- the normalizer alone

\* Longest buffer given to the normalizer on its own.
MaxNormLen == 2

\* Its samples, in units of 1 / FullScale: below, at and above full scale, of
\* both signs.
NormValues == {0 - 3, 0 - 2, 0, 1, 2}

NormInputs ==
    UNION { [1..L -> [1..ch -> NormValues]] : L \in 1..MaxNormLen, ch \in ChannelCounts }

\* A trimmed buffer is about to be normalized (before line 269).
NormalizerInit ==
    /\ RunInit
    /\ output_before = FALSE
    /\ tool_result = "none"
    /\ bench_pc = "normalize"
    /\ bench_in \in NormInputs
    /\ bench_rate \in SampleRates
    /\ bench_out = NoOutput

\* Lines 269-272 on their own.
ApplyNormalize ==
    /\ bench_pc = "normalize"
    /\ bench_out' = [samples |-> bench_in, divisor |-> NormalizeDivisor(bench_in),
                     rate |-> bench_rate]
    /\ bench_pc' = "normalized"
    /\ UNCHANGED <<pc, ref_exists, reqs, segments, total_duration, i, loopState,
                   written, output, call_result, host, bench_in, bench_rate>>

NormalizerNext == ApplyNormalize

NormalizerSpec == NormalizerInit /\ [][NormalizerNext]_vars

\* ------------------------------------------------------------- properties

\* The cursor a placed clip met: the end of the clip placed before it, 0 for the first.
CursorBefore(k) == IF k = 1 THEN 0 ELSE placed[k - 1].start + placed[k - 1].len

\* The pre-sized length of the buffer: int(total_duration * sample_rate).
PreSized == (total_duration * sample_rate) \div 1000

\* C1: for every pair of consecutively placed clips, whatever was skipped or
\* failed between them and whatever their nominal start times, the later
\* clip's offset is at least the earlier clip's offset plus its length.
C1_NoBackwardOverlap ==
    \A k \in 1..(Len(placed) - 1) :
        placed[k + 1].start >= placed[k].start + placed[k].len

\* C1 witness: two clips placed with a segment between them that placed
\* nothing, the later cue starting earlier than the earlier cue, and its
\* nominal sample lying before the end of the earlier clip.
C1_Witness ==
    \E k \in 1..(Len(placed) - 1) :
        /\ placed[k + 1].seg > placed[k].seg + 1
        /\ segments[placed[k + 1].seg].start < segments[placed[k].seg].start
        /\ placed[k + 1].nominal < placed[k].start + placed[k].len
        /\ placed[k].len > 0

\* C2: the cursor starts at 0, no step lowers it, and a step that places a
\* clip leaves it at the end sample of that clip.
C2_CursorMonotone ==
    /\ next_available_sample = 0
    /\ [][/\ next_available_sample' >= next_available_sample
          /\ success_count' = success_count + 1 =>
                next_available_sample' =
                    placed'[Len(placed')].start + placed'[Len(placed')].len]_vars

\* C2 witness: the loop has placed a clip, rejected another for its sample
\* rate and skipped or failed a third, and the cursor has moved.
C2_Witness ==
    /\ n_skipped + n_failed > 0
    /\ n_rejected > 0
    /\ success_count > 0
    /\ next_available_sample > 0
    /\ i > Len(segments)

\* C3 as stated: the offset of every placed clip is the larger of the cursor
\* and round(start_time * sample_rate).
C3_OffsetRounded ==
    \A k \in 1..Len(placed) :
        placed[k].start =
            Max(RoundHalfEven(segments[placed[k].seg].start * sample_rate, 1000),
                CursorBefore(k))

\* C3 amended: the offset of every placed clip is the larger of the cursor and
\* int(start_time * sample_rate), the product truncated: exactly the cursor
\* when the truncated nominal sample lies before it, else exactly the
\* truncated nominal sample.
C3_OffsetTruncated ==
    \A k \in 1..Len(placed) :
        LET nominal == (segments[placed[k].seg].start * sample_rate) \div 1000
        IN /\ nominal < CursorBefore(k) => placed[k].start = CursorBefore(k)
           /\ nominal >= CursorBefore(k) => placed[k].start = nominal

\* C3 witness: one clip was shifted to the cursor, another went to its nominal
\* sample past the cursor (a gap), and for one of them truncating and rounding
\* the nominal sample differ.
C3_Witness ==
    /\ \E k \in 1..Len(placed) :
         /\ placed[k].nominal < CursorBefore(k)
         /\ placed[k].start = CursorBefore(k)
    /\ \E k \in 1..Len(placed) :
         /\ placed[k].nominal > CursorBefore(k)
         /\ CursorBefore(k) > 0
         /\ placed[k].start = placed[k].nominal
    /\ \E k \in 1..Len(placed) :
         RoundHalfEven(segments[placed[k].seg].start * sample_rate, 1000)
             # placed[k].nominal

\* C4: a run that is over with no segment placed has a non-zero exit status.
C4_ZeroPlacedFails ==
    (Terminated /\ success_count = 0) => ExitStatus # 0

\* C5: once the run is over, the output file was written if and only if at
\* least one segment was placed.
C5_WrittenIffPlaced ==
    Terminated => (written <=> success_count > 0)

\* C6: a run in which k > 0 segments failed is not ended by them: once it is
\* over, with n segments that have text and do not differ in sample rate,
\* exactly n - k clips are placed.
C6_FailuresOnlyCostThemselves ==
    (pc \in {"done", "raised"} /\ n_failed > 0) =>
        success_count = (Len(segments) - n_skipped - n_rejected) - n_failed

\* A step of the loop that decoded a clip: a synthesis call that did not fail.
DecodedStep == synthCalls' = synthCalls + 1 /\ n_failed' = n_failed

\* Every frame of the buffer has the buffer's channel count.
BufferShape == \A k \in 1..Len(final_audio) : Len(final_audio[k]) = channels

\* C7: the first decoded clip sets the sample rate and the channel count of
\* the timeline; once set they never change, and the buffer keeps its channel
\* layout through growth; a later clip of another sample rate is rejected,
\* leaves buffer, cursor and placed count as they are, and the loop goes on
\* to the next segment.
C7_RateAndChannelsFixed ==
    [][/\ (DecodedStep /\ ~allocated) =>
             /\ allocated'
             /\ sample_rate' = sr'
             /\ channels' = placed'[Len(placed')].ch
       /\ allocated' => BufferShape'
       /\ (~allocated /\ allocated') => (DecodedStep /\ success_count = 0)
       /\ allocated =>
             /\ allocated'
             /\ sample_rate' = sample_rate
             /\ channels' = channels
       /\ (DecodedStep /\ allocated /\ sr' # sample_rate) =>
             /\ n_rejected' = n_rejected + 1
             /\ UNCHANGED <<final_audio, next_available_sample, success_count>>
             /\ pc' = "loop"
             /\ i' = i + 1]_vars

\* C7 witness: a clip was rejected for its sample rate after the buffer had
\* been extended, and a later clip was placed.
C7_Witness ==
    /\ n_rejected > 0
    /\ success_count >= 2
    /\ Len(final_audio) > PreSized
    /\ placed[Len(placed)].seg = Len(segments)
    /\ n_skipped = 0
    /\ n_failed = 0

\* C8: no combination of buffer and clip channel counts ends the run with an
\* exception: every decoded clip of the timeline's sample rate is mixed in.
C8_EveryChannelLayoutMixes == pc # "raised"

\* C9 as stated: the buffer handed to the encoder is as long as the final cursor.
C9_OutputLengthIsCursor ==
    written => Len(output.samples) = next_available_sample

\* C9 amended: the buffer handed to the encoder is as long as the final cursor
\* when the cursor is past 0; when the cursor is 0 (only zero-length clips, at
\* offset 0, were placed) the buffer is handed over untrimmed, at its
\* pre-sized length.
C9_OutputLength ==
    written =>
        /\ success_count > 0
        /\ next_available_sample > 0 => Len(output.samples) = next_available_sample
        /\ next_available_sample = 0 => Len(output.samples) = PreSized

\* C9 witness: a file was written after the buffer had been extended past its
\* pre-sized length, with a zero-length clip among those placed.
C9_Witness ==
    /\ written
    /\ next_available_sample > PreSized
    /\ Len(output.samples) = next_available_sample
    /\ \E k \in 1..Len(placed) : placed[k].len = 0

\* C10: with the reference audio missing the run is over, with exit status 1,
\* before any request; with no segment parsed it is over, with exit status 1,
\* before any synthesis call.
C10_FatalBeforeSynthesis ==
    /\ (~ref_exists /\ pc # "start") =>
          /\ pc = "exit"
          /\ ExitStatus = 1
          /\ checkCalls = 0 /\ uploadCalls = 0 /\ synthCalls = 0
    /\ (segments = <<>> /\ pc \in {"loop", "done", "exit", "raised"}) =>
          /\ pc = "exit"
          /\ ExitStatus = 1
          /\ synthCalls = 0

\* C10 witness: the run ended on an empty parse after the existence check and
\* the upload had been issued.
C10_Witness ==
    /\ pc = "exit"
    /\ ref_exists
    /\ checkCalls = 1
    /\ uploadCalls = 1
    /\ synthCalls = 0

\* Everything of the run but its position and the result of the last set-up request.
restOfRun == <<ref_exists, segments, total_duration, i, loopState, written, output>>

\* C18: a failed existence check leads to the upload and a failed upload leads
\* on to parsing, in the state a successful upload leaves; neither ends the
\* run; and the upload is entered only from a check that did not answer
\* "exists".
C18_ReferenceFailuresNotFatal ==
    [][/\ pc = "check" => pc' = "checked"
       /\ pc = "checked" =>
             /\ pc' = IF call_result = "exists" THEN "parse" ELSE "upload"
             /\ UNCHANGED <<restOfRun, reqs>>
       /\ pc' = "upload" => (pc = "checked" /\ call_result # "exists")
       /\ uploadCalls' # uploadCalls => pc = "upload"
       /\ pc = "upload" => pc' = "uploaded"
       /\ pc = "uploaded" =>
             /\ pc' = "parse"
             /\ call_result' = "none"
             /\ UNCHANGED <<restOfRun, reqs>>]_vars

\* C18 witness: the existence check has been made and the upload has failed.
C18_Witness ==
    /\ pc = "uploaded"
    /\ call_result = "upload_error"
    /\ checkCalls = 1
    /\ uploadCalls = 1

\* The messages convert_srt_to_audio returns.
ToolMessages == {"success", "error_not_created", "error_exception"}

\* C11: whatever way the run ends, the tool call ends with a returned message.
C11_ToolAlwaysReturnsMessage ==
    (Terminated /\ tool_result # "none") => tool_result \in ToolMessages

\* C12: the tool returns the success message only if this run placed a
\* segment and wrote the output file, whatever was at the output path before.
C12_SuccessOnlyIfWritten ==
    tool_result = "success" => (written /\ success_count > 0)

\* C13 as stated (compact mode): every clip after the first starts where the
\* clip before it ended plus the 200 ms gap.
C13_CompactPlacement ==
    \A k \in 2..Len(placed) :
        placed[k].start =
            placed[k - 1].start + placed[k - 1].len + SecondsToSamples(200, sample_rate)

\* C13 witness: what the code does with three clips of equal, non-zero
\* length: they are placed back to back from sample 0, with no gap.
C13_Witness ==
    /\ Len(placed) = 3
    /\ placed[1].start = 0
    /\ placed[1].len > 0
    /\ \A k \in 2..3 :
          /\ placed[k].len = placed[1].len
          /\ placed[k].start = placed[k - 1].start + placed[k - 1].len

\* C14: the faded clip has the length of the clip; with fade_samples =
\* int(0.05 * rate), every frame after the first fade_samples and before the
\* last fade_samples is unchanged; and when fade_samples is 0 or the clip is
\* no longer than 2 * fade_samples the whole clip is unchanged.
C14_FaderTouchesEdgesOnly ==
    bench_pc = "faded" =>
        LET n == (5 * bench_rate) \div 100
            L == Len(bench_in)
        IN /\ Len(bench_out) = L
           /\ \A k \in (n + 1)..(L - n) : bench_out[k] = bench_in[k]
           /\ (n = 0 \/ L <= 2 * n) => bench_out = bench_in

\* C14 witness: a stereo clip of 5 frames faded over 2 frames at each end: the
\* clip has changed and its middle frame has not.
C14_Witness ==
    /\ bench_pc = "faded"
    /\ bench_rate = 40
    /\ Len(bench_in) = 5
    /\ Len(bench_in[1]) = 2
    /\ bench_out # bench_in
    /\ bench_out[1] = <<0, 0>>
    /\ bench_out[3] = bench_in[3]

\* C15: after the normalizer no sample exceeds 1.0 in absolute value; a buffer
\* whose peak is at most 1.0 is left exactly as it was; a buffer whose peak
\* exceeds 1.0 has every sample divided by that peak.
C15_NormalizedPeak ==
    bench_pc = "normalized" =>
        LET in == bench_in
            d == bench_out.divisor
            Idx == { <<k, c>> \in (DOMAIN in) \X (1..2) : c \in DOMAIN in[k] }
        IN /\ bench_out.samples = in
           /\ \A x \in Idx : 0 - d <= in[x[1]][x[2]] /\ in[x[1]][x[2]] <= d
           /\ (\A x \in Idx : 0 - FullScale <= in[x[1]][x[2]] /\ in[x[1]][x[2]] <= FullScale)
                 => d = FullScale
           /\ (\E x \in Idx : in[x[1]][x[2]] > FullScale \/ in[x[1]][x[2]] < 0 - FullScale)
                 => \E x \in Idx : in[x[1]][x[2]] = d \/ in[x[1]][x[2]] = 0 - d

\* C15 witness: a stereo buffer whose peak, 1.5, is a negative sample, divided
\* by 1.5.
C15_Witness ==
    /\ bench_pc = "normalized"
    /\ Len(bench_in) = 2
    /\ bench_in[1] = <<0 - 3, 2>>
    /\ bench_out.divisor = 3

\* C16: at a step that reaches the write of line 257 (a clip is mixed in, or
\* the write raises), with oldLen the length of the buffer before the capacity
\* step: the buffer has length end_sample + 10 * sample_rate when end_sample
\* exceeds oldLen and length oldLen otherwise; every frame outside the written
\* range keeps its value below oldLen and is zero from oldLen on; every frame
\* has the timeline's channel count, which does not change; the written range
\* lies within the buffer. And no step of the loop shortens the buffer.
C16_CapacityStep ==
    [][/\ (success_count' = success_count + 1 \/ pc' = "raised") =>
            LET oldLen == IF allocated THEN Len(final_audio) ELSE PreSized'
                end_sample == next_available_sample'
                start_sample == IF pc' = "raised"
                                THEN end_sample
                                ELSE placed'[Len(placed')].start
                new == final_audio'
                IsZero(f) == \A c \in DOMAIN f : f[c] = 0
            IN /\ Len(new) = IF end_sample > oldLen
                             THEN end_sample + 10 * sample_rate'
                             ELSE oldLen
               /\ \A k \in 1..Len(new) :
                     /\ Len(new[k]) = channels'
                     /\ (k <= start_sample \/ k > end_sample) =>
                           IF allocated /\ k <= oldLen
                           THEN new[k] = final_audio[k]
                           ELSE IsZero(new[k])
               /\ allocated => channels' = channels
               /\ 0 <= start_sample
               /\ start_sample <= end_sample
               /\ end_sample <= Len(new)
       /\ (pc = "loop" /\ pc' \in {"loop", "raised"}) =>
             Len(final_audio') >= Len(final_audio)]_vars

\* C16 witness: a stereo buffer that has been extended, with two clips in it,
\* the second one ending beyond the pre-sized length.
C16_Witness ==
    /\ pc = "loop"
    /\ channels = 2
    /\ success_count = 2
    /\ next_available_sample > PreSized
    /\ Len(final_audio) = next_available_sample + 10 * sample_rate

\* Position p of text t lies in a span "<", one or more characters other
\* than ">", ">".
InTag(t, p) ==
    \E a \in 1..p, b \in p..Len(t) :
        /\ t[a] = "<"
        /\ t[b] = ">"
        /\ b > a + 1
        /\ \A q \in (a + 1)..(b - 1) : t[q] # ">"

\* Nothing is left of t once its markup spans and its surrounding whitespace
\* are removed: every character is in a span or is whitespace.
EmptyAfterCleaning(t) == \A p \in 1..Len(t) : t[p] = " " \/ InTag(t, p)

\* C17: the step taken for a segment whose text is empty after cleaning moves
\* to the next segment and issues no request; it leaves the buffer, the
\* cursor, the sample rate, the channel count, the placed clips and their
\* count, and the list of segments as they were.
C17_EmptySegmentSkipped ==
    [][(InLoop /\ EmptyAfterCleaning(segments[i].text)) =>
          /\ i' = i + 1
          /\ pc' = "loop"
          /\ UNCHANGED <<reqs, segments, total_duration, allocated, final_audio,
                         channels, sample_rate, success_count,
                         next_available_sample, placed, n_failed, n_rejected>>]_vars

\* C17 witness: the second of three segments had only markup and a space for
\* text and was skipped; the first and the third are the two clips placed.
C17_Witness ==
    /\ pc = "loop"
    /\ i = 4
    /\ n_skipped = 1
    /\ synthCalls = 2
    /\ Len(placed) = 2
    /\ placed[1].seg = 1
    /\ placed[2].seg = 3
    /\ ~EmptyAfterCleaning(segments[1].text)
    /\ EmptyAfterCleaning(segments[2].text)

====
